---- MODULE Spec2Model ----
(***************************************************************************)
(* Model of osmgeocoder's Geocoder (src/osmgeocoder/geocoder.py):          *)
(* construction, reverse() with its radius loop over _fetch_address, and   *)
(* forward() with the parser call and the query builder of                 *)
(* _fetch_coordinate.  SQL text is modelled as a sequence of clause        *)
(* tokens in textual order, the database as a small table of rows, and     *)
(* cursor.execute as a syntax check followed by evaluation of the tokens.  *)
(***************************************************************************)
EXTENDS Integers, Sequences, FiniteSets, TLC

VARIABLES
    geocoder,       \* "none" before __init__ succeeded, "ready" after
    config,         \* set of keys present in config['tables']
    buildings,      \* rows of the buildings/postcode/admin join near the reverse point
    pc,             \* "idle", or "reverse" while reverse() is inside its radius loop
    radiusIdx,      \* position of the radius loop in Radii
    limitArg,       \* the limit argument of the running reverse() call
    queries,        \* database queries executed by the current / last call, in order
    parserCalls,    \* requests sent to the address-parsing service by the current / last call
    status,         \* "none", "running", "returned" or "raised"
    returned,       \* value returned by the last call (<<>> models None / empty list)
    raised,         \* exception class raised by the last call, "" if none
    call,           \* name of the current / last operation
    parsed_address, \* parsed_address of the last _fetch_coordinate call
    query,          \* SQL text (clause tokens) built by the last _fetch_coordinate call
    v,              \* parameter list passed to cursor.execute by the last _fetch_coordinate call
    search_term,    \* address argument of the last forward() call
    centerArg,      \* center argument of the last forward() call (<<>> models None)
    parserOutcome   \* what post() did in the last forward() call

vars == <<geocoder, config, buildings, pc, radiusIdx, limitArg, queries,
          parserCalls, status, returned, raised, call, parsed_address, query,
          v, search_term, centerArg, parserOutcome>>

fwdVars == <<parsed_address, query, v, search_term, centerArg, parserOutcome>>

NULL == "NULL"

(***************************************************************************)
(* Bounds of the model.                                                    *)
(***************************************************************************)
MaxRows == 3
MaxLimit == 2

(***************************************************************************)
(* Configuration and construction.                                         *)
(***************************************************************************)
TableKeys == {"buildings", "postcode", "admin"}

\* configurations offered to the constructor: complete, or one table name missing
Configs == {TableKeys} \cup {TableKeys \ {k} : k \in TableKeys}

\* str.format(...=self.config['tables'][k]) raises KeyError for a missing key
TablesResolve(cfg) == TableKeys \subseteq cfg

\* Geocoder.__init__: opens the database connection and builds the formatter;
\* config['tables'] is not read here.
Construct(cfg, connects) ==
    /\ geocoder = "none"
    /\ pc = "idle"
    /\ call' = "init"
    /\ queries' = <<>>
    /\ parserCalls' = 0
    /\ returned' = <<>>
    /\ IF connects
         THEN /\ geocoder' = "ready"
              /\ config' = cfg
              /\ status' = "returned"
              /\ raised' = ""
         ELSE /\ geocoder' = "none"
              /\ config' = config
              /\ status' = "raised"
              /\ raised' = "OperationalError"
    /\ UNCHANGED <<buildings, pc, radiusIdx, limitArg, fwdVars>>

(***************************************************************************)
(* Ring query of _fetch_address.                                           *)
(***************************************************************************)
Radii == <<25, 50, 100>>

Dists == {12, 30, 80}

AddrTuples ==
    { [house |-> "cafe", road |-> "main", house_number |-> "5",
       postcode |-> "10115", city |-> "berlin"],
      [house |-> NULL, road |-> "main", house_number |-> "7",
       postcode |-> "10115", city |-> "berlin"] }

GroupKey(r) == <<r.house, r.road, r.house_number, r.postcode, r.city>>

MinOf(S) == CHOOSE m \in S : \A n \in S : m <= n

\* WHERE ST_DWithin(b.geometry, point, radius)
Within(rows, radius) == {r \in rows : r.distance <= radius}

\* ORDER BY ST_Distance(...) LIMIT limit of the inner select: any choice of
\* min(limit, n) nearest rows (rows at equal distance come in any order)
InnerMutLimitAfter(rows, radius, limit) == {Within(rows, radius)}

Inner(rows, radius, limit) ==
    LET W == Within(rows, radius)
        n == IF Cardinality(W) < limit THEN Cardinality(W) ELSE limit
    IN  {S \in SUBSET W :
            /\ Cardinality(S) = n
            /\ \A r \in S : \A q \in W \ S : r.distance <= q.distance}

\* GROUP BY house, road, house_number, postcode, city with min(distance)
GroupRow(S, k) ==
    LET any == CHOOSE r \in S : GroupKey(r) = k
    IN  [house |-> any.house, road |-> any.road,
         house_number |-> any.house_number, postcode |-> any.postcode,
         city |-> any.city,
         distance |-> MinOf({r.distance : r \in {q \in S : GroupKey(q) = k}})]

Grouped(S) == {GroupRow(S, k) : k \in {GroupKey(r) : r \in S}}

\* ORDER BY min(distance): every ascending arrangement of the groups
Ordered(G) ==
    {s \in [1..Cardinality(G) -> G] :
        /\ \A i, j \in 1..Cardinality(G) : i # j => s[i] # s[j]
        /\ \A i, j \in 1..Cardinality(G) : i < j => s[i].distance <= s[j].distance}

\* all result sequences the ring query can produce
RingQuery(rows, radius, limit) ==
    UNION {Ordered(Grouped(S)) : S \in Inner(rows, radius, limit)}

\* AddressFormatter.format: display string built from the address fields
Format(item) ==
    <<"address", IF "house" \in DOMAIN item THEN item.house ELSE item.name,
      item.road, item.house_number, item.postcode, item.city>>

\* Geocoder._fetch_address called on its own: builds the query text, executes
\* it and yields every grouped row.
FetchAddress(radius, limit) ==
    /\ geocoder = "ready"
    /\ pc = "idle"
    /\ call' = "_fetch_address"
    /\ parserCalls' = 0
    /\ IF ~TablesResolve(config)
         THEN /\ queries' = <<>>
              /\ status' = "raised"
              /\ raised' = "KeyError"
              /\ returned' = <<>>
         ELSE \E rows \in RingQuery(buildings, radius, limit) :
              /\ queries' = <<[kind |-> "ring", radius |-> radius,
                               limit |-> limit, rows |-> rows]>>
              /\ status' = "returned"
              /\ raised' = ""
              /\ returned' = rows
    /\ UNCHANGED <<geocoder, config, buildings, pc, radiusIdx, limitArg, fwdVars>>

(***************************************************************************)
(* reverse(): the radius loop.                                             *)
(***************************************************************************)
\* entry of Geocoder.reverse up to the head of the for loop
ReverseCall(limit) ==
    /\ geocoder = "ready"
    /\ pc = "idle"
    /\ pc' = "reverse"
    /\ call' = "reverse"
    /\ radiusIdx' = 1
    /\ limitArg' = limit
    /\ queries' = <<>>
    /\ parserCalls' = 0
    /\ status' = "running"
    /\ returned' = <<>>
    /\ raised' = ""
    /\ UNCHANGED <<geocoder, config, buildings, fwdVars>>

\* next(generator) on the rows of one ring query: the first row, or
\* StopIteration when the cursor yields nothing
NextItem(rows) ==
    IF rows = <<>> THEN [stop |-> TRUE, none |-> FALSE, item |-> <<>>]
    ELSE [stop |-> FALSE, none |-> FALSE, item |-> <<rows[1]>>]

\* one pass of "for radius in [25, 50, 100]" (or the fall-through after it)
ReverseIter ==
    /\ pc = "reverse"
    /\ IF radiusIdx > Len(Radii)
         THEN \* loop exhausted: implicit return None
              /\ pc' = "idle"
              /\ status' = "returned"
              /\ returned' = <<>>
              /\ UNCHANGED <<radiusIdx, queries, raised>>
         ELSE IF ~TablesResolve(config)
         THEN /\ pc' = "idle"
              /\ status' = "raised"
              /\ raised' = "KeyError"
              /\ UNCHANGED <<radiusIdx, queries, returned>>
         ELSE \E rows \in RingQuery(buildings, Radii[radiusIdx], limitArg) :
              LET n == NextItem(rows) IN
              /\ queries' = Append(queries,
                                [kind |-> "ring", radius |-> Radii[radiusIdx],
                                 limit |-> limitArg, rows |-> rows])
              /\ IF n.stop
                   THEN /\ pc' = "idle"
                        /\ status' = "raised"
                        /\ raised' = "StopIteration"
                        /\ UNCHANGED <<radiusIdx, returned>>
                   ELSE IF ~n.none
                   THEN /\ pc' = "idle"
                        /\ status' = "returned"
                        /\ returned' = <<Format(n.item[1])>>
                        /\ UNCHANGED <<radiusIdx, raised>>
                   ELSE /\ radiusIdx' = radiusIdx + 1
                        /\ UNCHANGED <<pc, status, returned, raised>>
    /\ UNCHANGED <<geocoder, config, buildings, limitArg, parserCalls, call, fwdVars>>

(***************************************************************************)
(* Coordinate projection (pyproj transform between epsg:4326 and           *)
(* epsg:3857), restricted to whole-degree points on the equator, where     *)
(* y = 0 and x is linear in the longitude (6378137 * pi / 180 m per        *)
(* degree, rounded to metres).                                             *)
(***************************************************************************)
MetersPerDegree == 111319

\* transform(latlonProj, mercProj, lon, lat) -> (x, y)
ToMercator(lon, lat) == <<lon * MetersPerDegree, lat * MetersPerDegree>>

\* transform(mercProj, latlonProj, x, y) -> (lon, lat), to the nearest degree
ToLatLon(x, y) ==
    <<(x + MetersPerDegree \div 2) \div MetersPerDegree,
      (y + MetersPerDegree \div 2) \div MetersPerDegree>>

(***************************************************************************)
(* The database seen by the forward queries: the join of buildings with    *)
(* their postcode area and their admin_level 6 boundary, and the pg_trgm   *)
(* operators on the text columns.                                          *)
(***************************************************************************)
NumBuildings == 24

RoadNames == <<"main", "maine", "mill">>
HouseNumbers == <<"5", "7">>
Postcodes == <<"10115", "20095", NULL>>
Cities == <<"berlin", "bern", NULL>>

Building(i) ==
    [id |-> i,
     name |-> IF i % 4 = 0 THEN "cafe" ELSE NULL,
     road |-> IF i % 8 = 0 THEN "park" ELSE RoadNames[(i % 3) + 1],
     house_number |-> HouseNumbers[(i % 2) + 1],
     postcode |-> Postcodes[((i \div 3) % 3) + 1],
     city |-> Cities[((i \div 2) % 3) + 1],
     x |-> ((i * 7) % 5) * MetersPerDegree,
     y |-> 0]

\* trigram distance (a <-> b) in tenths: 0 for equal strings, 10 for strings
\* sharing no trigram
TrgmTable ==
    { <<"main", "maine", 4>>, <<"main", "mill", 9>>, <<"maine", "mill", 9>>,
      <<"Main St 5", "main", 5>>, <<"Main St 5", "maine", 6>>,
      <<"Main St 5", "mill", 9>>, <<"berlin", "bern", 6>> }

TrgmDist(a, b) ==
    IF a = b THEN 0
    ELSE IF \E e \in TrgmTable : (e[1] = a /\ e[2] = b) \/ (e[1] = b /\ e[2] = a)
    THEN (CHOOSE e \in TrgmTable : (e[1] = a /\ e[2] = b) \/ (e[1] = b /\ e[2] = a))[3]
    ELSE 10

\* similarity operator (a % b); NULL is similar to nothing
Similar(a, b) == a # NULL /\ b # NULL /\ TrgmDist(a, b) < 10

(***************************************************************************)
(* Address parser call of _fetch_coordinate.                               *)
(***************************************************************************)
Fields == {"road", "house_number", "postcode", "city"}

FieldValues(f) ==
    IF f = "road" THEN {"main", "mill"}
    ELSE IF f = "house_number" THEN {"5"}
    ELSE IF f = "postcode" THEN {"10115"}
    ELSE {"berlin"}

\* dictionaries the parser can return as first candidate
ParsedAddresses ==
    UNION {{pa \in [S -> UNION {FieldValues(f) : f \in S}] :
                \A f \in S : pa[f] \in FieldValues(f)} : S \in SUBSET Fields}

SearchTerms == {"main", "Main St 5"}

\* requests.exceptions classes post() can raise
RequestExceptions == {"ConnectionError", "ConnectTimeout", "ReadTimeout"}

\* requests.exceptions: ConnectTimeout derives from ConnectionError, ReadTimeout does not
IsConnectionError(exc) == exc \in {"ConnectionError", "ConnectTimeout"}

PostOutcomes ==
    {[kind |-> "response", status |-> 200, body |-> <<pa>>, exc |-> ""] : pa \in ParsedAddresses}
    \cup {[kind |-> "response", status |-> s, body |-> <<>>, exc |-> ""] : s \in {200, 404, 500}}
    \cup {[kind |-> "raise", status |-> 0, body |-> <<>>, exc |-> e] : e \in RequestExceptions}

\* try: post(...) / response.json()[0] / except ConnectionError
ParseAddress(term, outcome) ==
    IF outcome.kind = "raise"
    THEN IF IsConnectionError(outcome.exc)
         THEN [exc |-> "", parsed |-> [f \in {"road"} |-> term]]
         ELSE [exc |-> outcome.exc, parsed |-> <<>>]
    ELSE IF outcome.status = 200
    THEN IF outcome.body = <<>>
         THEN [exc |-> "IndexError", parsed |-> <<>>]
         ELSE [exc |-> "", parsed |-> outcome.body[1]]
    ELSE [exc |-> "", parsed |-> [f \in {"road"} |-> term]]

(***************************************************************************)
(* Query builder of _fetch_coordinate.  The query text is the sequence of  *)
(* its clauses in textual order; "%s" marks a value placeholder.           *)
(***************************************************************************)
DefaultLimit == 20

Has(parsed, f) == f \in DOMAIN parsed

\* list.insert(index, value)
ListInsert(list, index, value) ==
    LET at == IF index > Len(list) THEN Len(list) ELSE index
    IN  SubSeq(list, 1, at) \o <<value>> \o SubSeq(list, at + 1, Len(list))

\* 'b.{field} %% %s'.format(field=query_part)
FieldFilter(field) ==
    IF field = "road" THEN "b.road %% %s" ELSE "b.house_number %% %s"

\* for query_part in ['road', 'house_number']: the parts present, in order
QueryParts(parsed) ==
    SelectSeq(<<"road", "house_number">>, LAMBDA f : Has(parsed, f))

\* q after the loop
FilterClauses(parsed) ==
    [i \in 1..Len(QueryParts(parsed)) |-> FieldFilter(QueryParts(parsed)[i])]

\* v after the loop
FilterValues(parsed) ==
    [i \in 1..Len(QueryParts(parsed)) |-> parsed[QueryParts(parsed)[i]]]

\* trgm_dist select expression
TrgmDistExpr(parsed) ==
    IF Has(parsed, "road") THEN "road <-> %s as trgm_dist" ELSE "0 as trgm_dist"

\* v after v.insert(0, parsed_address['road'])
ValuesWithTrgm(parsed) ==
    IF Has(parsed, "road")
    THEN ListInsert(FilterValues(parsed), 0, parsed["road"])
    ELSE FilterValues(parsed)

\* " AND ".join(q)
RECURSIVE JoinAnd(_)
JoinAnd(q) ==
    IF Len(q) = 0 THEN <<>>
    ELSE IF Len(q) = 1 THEN q
    ELSE <<q[1], "AND">> \o JoinAnd(Tail(q))

\* the extra select column when a center is given
DistanceCol(center) ==
    IF center = <<>> THEN <<>>
    ELSE <<", ST_Distance(ST_Centroid(b.geometry), POINT) as dist">>

\* order_by_distance
OrderByDistance(center) ==
    IF center = <<>> THEN <<>> ELSE <<"dist ASC,">>

\* ORDER BY {order_by_distance} trgm_dist DESC
OrderByMutAsc(center) ==
    <<"ORDER BY">> \o OrderByDistance(center) \o <<"trgm_dist ASC">>

OrderBy(center) ==
    <<"ORDER BY">> \o OrderByDistance(center) \o <<"trgm_dist DESC">>

\* if 'postcode' in parsed_address / elif 'city' in parsed_address / else
BranchMutCityFirst(parsed) ==
    IF Has(parsed, "city") THEN "city"
    ELSE IF Has(parsed, "postcode") THEN "postcode"
    ELSE "road"

Branch(parsed) ==
    IF Has(parsed, "postcode") THEN "postcode"
    ELSE IF Has(parsed, "city") THEN "city"
    ELSE "road"

\* the three query templates after .format(...)
QueryText(parsed, center) ==
    LET where == JoinAnd(FilterClauses(parsed))
        tail == OrderBy(center) \o <<"LIMIT">>
    IN  IF Branch(parsed) = "postcode"
        THEN <<"SELECT", "b.*", "pc.postcode", "a.name as city", TrgmDistExpr(parsed),
               "ST_Centroid(b.geometry) as location">> \o DistanceCol(center)
             \o <<"FROM postcode pc", "JOIN buildings b", "LEFT JOIN admin a",
                  "WHERE", "pc.postcode = %s", "AND", "(">> \o where \o <<")">> \o tail
        ELSE IF Branch(parsed) = "city"
        THEN <<"SELECT", "b.*", "a.name as city", "pc.postcode", TrgmDistExpr(parsed),
               "ST_Centroid(b.geometry) as location">> \o DistanceCol(center)
             \o <<"FROM admin a", "JOIN buildings b", "LEFT JOIN postcode pc",
                  "WHERE", "a.name %% %s", "AND", "a.admin_level = 6", "AND", "(">>
             \o where \o <<")">> \o tail
        ELSE <<"SELECT", "b.*", "pc.postcode", "a.name as city", TrgmDistExpr(parsed),
               "ST_Centroid(b.geometry) as location">> \o DistanceCol(center)
             \o <<"FROM buildings b", "LEFT JOIN postcode pc", "LEFT JOIN admin a",
                  "WHERE">> \o where \o tail

\* v.insert(1, ...) / v.insert(0, ...) of the postcode and city branches
QueryValuesMutFront(parsed) ==
    IF Branch(parsed) = "road" THEN ValuesWithTrgm(parsed)
    ELSE ListInsert(ValuesWithTrgm(parsed), 0, parsed[Branch(parsed)])

QueryValues(parsed) ==
    IF Branch(parsed) = "road" THEN ValuesWithTrgm(parsed)
    ELSE IF Has(parsed, "road")
    THEN ListInsert(ValuesWithTrgm(parsed), 1, parsed[Branch(parsed)])
    ELSE ListInsert(ValuesWithTrgm(parsed), 0, parsed[Branch(parsed)])

NoQuery == [tokens |-> <<>>, limit |-> 0, point |-> <<>>]

(***************************************************************************)
(* cursor.execute(query, v): parameter binding by psycopg2, then parsing   *)
(* and evaluation by the database.                                         *)
(***************************************************************************)
PlaceholderClauses ==
    {"road <-> %s as trgm_dist", "pc.postcode = %s", "a.name %% %s",
     "b.road %% %s", "b.house_number %% %s"}

Predicates ==
    {"pc.postcode = %s", "a.name %% %s", "b.road %% %s", "b.house_number %% %s",
     "a.admin_level = 6"}

\* positions of the value placeholders, in textual order
PlaceholderPositions(tokens) ==
    SelectSeq([i \in 1..Len(tokens) |-> i], LAMBDA i : tokens[i] \in PlaceholderClauses)

\* the parameter bound to the placeholder at position pos
BoundValue(tokens, params, pos) ==
    LET pp == PlaceholderPositions(tokens)
    IN  params[CHOOSE k \in 1..Len(pp) : pp[k] = pos]

\* SQL grammar on the clauses: WHERE, AND and "(" must be followed by a
\* predicate or a parenthesised group
SyntaxOK(tokens) ==
    \A i \in 1..Len(tokens) :
        tokens[i] \in {"WHERE", "AND", "("}
            => /\ i < Len(tokens)
               /\ tokens[i + 1] \in Predicates \cup {"("}

\* does the joined row satisfy the predicate at position pos
Holds(b, tokens, params, pos) ==
    LET t == tokens[pos] IN
    IF t = "pc.postcode = %s" THEN b.postcode # NULL /\ b.postcode = BoundValue(tokens, params, pos)
    ELSE IF t = "a.name %% %s" THEN Similar(b.city, BoundValue(tokens, params, pos))
    ELSE IF t = "b.road %% %s" THEN Similar(b.road, BoundValue(tokens, params, pos))
    ELSE IF t = "b.house_number %% %s" THEN Similar(b.house_number, BoundValue(tokens, params, pos))
    ELSE IF t = "a.admin_level = 6" THEN b.city # NULL
    ELSE TRUE

\* inner join with the driving table of the FROM clause
Joins(b, tokens) ==
    /\ (\E i \in 1..Len(tokens) : tokens[i] = "FROM postcode pc") => b.postcode # NULL
    /\ (\E i \in 1..Len(tokens) : tokens[i] = "FROM admin a") => b.city # NULL

\* one row of the result set
ResultRow(b, q, params) ==
    LET tp == {i \in 1..Len(q.tokens) : q.tokens[i] = "road <-> %s as trgm_dist"}
    IN  [id |-> b.id, name |-> b.name, road |-> b.road,
         house_number |-> b.house_number, postcode |-> b.postcode, city |-> b.city,
         trgm_dist |-> IF tp = {} THEN 0
                       ELSE TrgmDist(b.road, BoundValue(q.tokens, params, CHOOSE i \in tp : TRUE)),
         location |-> <<b.x, b.y>>,
         dist |-> IF \E i \in 1..Len(q.tokens) :
                        q.tokens[i] = ", ST_Distance(ST_Centroid(b.geometry), POINT) as dist"
                  THEN <<IF b.x >= q.point[1] THEN b.x - q.point[1] ELSE q.point[1] - b.x>>
                  ELSE <<>>]

\* ORDER BY: does row r come before row s; rows equal on every sort key
\* come in ascending or descending storage order
ComesBefore(r, s, tokens, tie) ==
    LET has(t) == \E i \in 1..Len(tokens) : tokens[i] = t
        byTie == IF tie = "asc" THEN r.id < s.id ELSE r.id > s.id
        byTrgm == IF has("trgm_dist DESC") /\ r.trgm_dist # s.trgm_dist
                  THEN r.trgm_dist > s.trgm_dist
                  ELSE IF has("trgm_dist ASC") /\ r.trgm_dist # s.trgm_dist
                  THEN r.trgm_dist < s.trgm_dist
                  ELSE byTie
    IN  IF has("dist ASC,") /\ r.dist # s.dist
        THEN r.dist[1] < s.dist[1]
        ELSE byTrgm

\* LIMIT n
Take(rows, n) == SubSeq(rows, 1, IF Len(rows) < n THEN Len(rows) ELSE n)

\* outcome of cursor.execute followed by iteration over the cursor
Execute(q, params, tie) ==
    IF Len(PlaceholderPositions(q.tokens)) > Len(params)
    THEN [error |-> "IndexError", sent |-> FALSE, rows |-> <<>>]
    ELSE IF Len(PlaceholderPositions(q.tokens)) < Len(params)
    THEN [error |-> "TypeError", sent |-> FALSE, rows |-> <<>>]
    ELSE IF ~SyntaxOK(q.tokens)
    THEN [error |-> "ProgrammingError", sent |-> TRUE, rows |-> <<>>]
    ELSE
        LET all == [i \in 1..NumBuildings |-> Building(i)]
            where == {i \in 1..Len(q.tokens) : q.tokens[i] \in Predicates}
            hit == SelectSeq(all, LAMBDA b :
                        /\ Joins(b, q.tokens)
                        /\ \A pos \in where : Holds(b, q.tokens, params, pos))
            rows == [i \in 1..Len(hit) |-> ResultRow(hit[i], q, params)]
        IN  [error |-> "", sent |-> TRUE,
             rows |-> Take(SortSeq(rows, LAMBDA r, s : ComesBefore(r, s, q.tokens, tie)),
                           q.limit)]

(***************************************************************************)
(* forward(): projection of the center, _fetch_coordinate, formatting.     *)
(***************************************************************************)
\* (lat, lon) centers offered to forward(); <<>> is center=None
Centers == {<<>>, <<0, 0>>, <<0, 2>>}

\* the loop of forward(): format each row and project its location back
ForwardResults(rows) ==
    [i \in 1..Len(rows) |->
        <<Format(rows[i]),
          ToLatLon(rows[i].location[1], rows[i].location[2])[2],
          ToLatLon(rows[i].location[1], rows[i].location[2])[1]>>]

\* Geocoder.forward with the whole of _fetch_coordinate
Forward(term, center, outcome, tie) ==
    /\ geocoder = "ready"
    /\ pc = "idle"
    /\ call' = "forward"
    /\ search_term' = term
    /\ centerArg' = center
    /\ parserOutcome' = outcome
    /\ parserCalls' = 1
    /\ LET merc == IF center = <<>> THEN <<>> ELSE ToMercator(center[2], center[1])
           p == ParseAddress(term, outcome)
       IN  IF p.exc # ""
           THEN /\ parsed_address' = <<>>
                /\ query' = NoQuery
                /\ v' = <<>>
                /\ queries' = <<>>
                /\ status' = "raised"
                /\ raised' = p.exc
                /\ returned' = <<>>
           ELSE IF ~TablesResolve(config)
           THEN /\ parsed_address' = p.parsed
                /\ query' = NoQuery
                /\ v' = ValuesWithTrgm(p.parsed)
                /\ queries' = <<>>
                /\ status' = "raised"
                /\ raised' = "KeyError"
                /\ returned' = <<>>
           ELSE \E q \in {[tokens |-> QueryText(p.parsed, merc),
                           limit |-> DefaultLimit, point |-> merc]} :
                \E r \in {Execute(q, QueryValues(p.parsed), tie)} :
                /\ parsed_address' = p.parsed
                /\ query' = q
                /\ v' = QueryValues(p.parsed)
                /\ queries' = IF r.sent
                              THEN <<[kind |-> "forward", rows |-> r.rows, error |-> r.error]>>
                              ELSE <<>>
                /\ IF r.error # ""
                     THEN /\ status' = "raised"
                          /\ raised' = r.error
                          /\ returned' = <<>>
                     ELSE /\ status' = "returned"
                          /\ raised' = ""
                          /\ returned' = ForwardResults(r.rows)
    /\ UNCHANGED <<geocoder, config, buildings, pc, radiusIdx, limitArg>>

(***************************************************************************)
(* Initial states.                                                         *)
(***************************************************************************)
\* buildings near the query point: up to MaxRows joined rows, listed by
\* non-decreasing distance
RowTables ==
    UNION {{f \in [1..n -> AddrTuples \X Dists] :
                \A i \in 1..n : i < n => f[i][2] <= f[i + 1][2]} : n \in 0..MaxRows}

RowsOf(f) ==
    {[id |-> i, house |-> f[i][1].house, road |-> f[i][1].road,
      house_number |-> f[i][1].house_number, postcode |-> f[i][1].postcode,
      city |-> f[i][1].city, distance |-> f[i][2]] : i \in DOMAIN f}

InitCommon ==
    /\ geocoder = "none"
    /\ config = {}
    /\ pc = "idle"
    /\ radiusIdx = 1
    /\ limitArg = 1
    /\ queries = <<>>
    /\ parserCalls = 0
    /\ status = "none"
    /\ returned = <<>>
    /\ raised = ""
    /\ call = "none"
    /\ parsed_address = <<>>
    /\ query = [tokens |-> <<>>, limit |-> 0, point |-> <<>>]
    /\ v = <<>>
    /\ search_term = ""
    /\ centerArg = <<>>
    /\ parserOutcome = [kind |-> "none", status |-> 0, body |-> <<>>, exc |-> ""]

InitReverse ==
    /\ InitCommon
    /\ \E f \in RowTables : buildings = RowsOf(f)

NextReverse ==
    \/ \E cfg \in Configs, connects \in BOOLEAN : Construct(cfg, connects)
    \/ \E radius \in {Radii[i] : i \in DOMAIN Radii}, limit \in 1..MaxLimit :
            FetchAddress(radius, limit)
    \/ \E limit \in 1..MaxLimit : ReverseCall(limit)
    \/ ReverseIter

SpecReverse == InitReverse /\ [][NextReverse]_vars

InitForward ==
    /\ InitCommon
    /\ buildings = {}

NextForward ==
    \/ \E cfg \in Configs, connects \in BOOLEAN : Construct(cfg, connects)
    \/ \E term \in SearchTerms, center \in Centers, outcome \in PostOutcomes,
          tie \in {"asc", "desc"} : Forward(term, center, outcome, tie)

SpecForward == InitForward /\ [][NextForward]_vars

(***************************************************************************)
(* Properties.                                                             *)
(***************************************************************************)
ReverseDone == call = "reverse" /\ pc = "idle" /\ TablesResolve(config)

\* radii whose ring query has at least one row to return
HitRadii == {i \in DOMAIN Radii : Within(buildings, Radii[i]) # {}}

\* C1: reverse queries the radii 25, 50, 100 in order, continues past every
\* radius without a grouped result, and at the first radius with a result
\* returns the formatted first group of that query and queries no larger radius.
C1_RadiusEscalation ==
    (ReverseDone /\ HitRadii # {}) =>
        LET k == MinOf(HitRadii) IN
        /\ Len(queries) = k
        /\ \A i \in 1..Len(queries) : queries[i].radius = Radii[i]
        /\ status = "returned"
        /\ returned = <<Format(queries[k].rows[1])>>

\* C2: when the ring queries at 25, 50 and 100 are all empty, reverse returns
\* None after exactly three queries and raises nothing.
C2_NoMatchReturnsNone ==
    (ReverseDone /\ HitRadii = {}) =>
        /\ status = "returned"
        /\ returned = <<>>
        /\ raised = ""
        /\ Len(queries) = Len(Radii)

ForwardDone == call = "forward" /\ TablesResolve(config)

ParserFailed == parserOutcome.kind = "raise" \/ parserOutcome.status # 200

\* C3: on every transport failure or non-200 status of the parser request the
\* parsed address is exactly {road: rawQuery} and the query is executed; no
\* outcome of the parser call aborts forward.
C3_ParserFallback ==
    ForwardDone =>
        /\ ParserFailed =>
                /\ parsed_address = [f \in {"road"} |-> search_term]
                /\ Len(queries) = 1
        /\ raised \notin RequestExceptions \cup {"IndexError"}

HasToken(t) == \E i \in 1..Len(query.tokens) : query.tokens[i] = t

QueryBuilt == call = "forward" /\ query # NoQuery

\* C4: exactly one strategy per parsed address: postcode present selects the
\* postcode-driven query (filter postcode = value), city without postcode the
\* admin-driven query (admin level 6, fuzzy city match), neither the
\* buildings query with left joins only.
C4_StrategySelection ==
    QueryBuilt =>
        /\ Cardinality({t \in {"FROM postcode pc", "FROM admin a", "FROM buildings b"} :
                            HasToken(t)}) = 1
        /\ Has(parsed_address, "postcode") =>
                /\ HasToken("FROM postcode pc")
                /\ HasToken("pc.postcode = %s")
                /\ ~HasToken("a.name %% %s")
        /\ (Has(parsed_address, "city") /\ ~Has(parsed_address, "postcode")) =>
                /\ HasToken("FROM admin a")
                /\ HasToken("a.name %% %s")
                /\ HasToken("a.admin_level = 6")
                /\ ~HasToken("pc.postcode = %s")
        /\ (~Has(parsed_address, "city") /\ ~Has(parsed_address, "postcode")) =>
                /\ HasToken("FROM buildings b")
                /\ HasToken("LEFT JOIN postcode pc")
                /\ HasToken("LEFT JOIN admin a")
                /\ ~HasToken("JOIN buildings b")
                /\ ~HasToken("pc.postcode = %s")
                /\ ~HasToken("a.name %% %s")

C4_Witness ==
    /\ QueryBuilt
    /\ Has(parsed_address, "postcode")
    /\ Has(parsed_address, "city")
    /\ HasToken("FROM postcode pc")
    /\ status = "returned"

\* C5: with no address field present the buildings query is a valid
\* unfiltered scan with ranking expression 0, and forward completes without error.
C5_EmptyAddressScan ==
    (ForwardDone /\ parserOutcome.kind = "response" /\ parserOutcome.status = 200
        /\ parserOutcome.body # <<>> /\ parsed_address = <<>>) =>
        /\ HasToken("FROM buildings b")
        /\ HasToken("0 as trgm_dist")
        /\ \A i \in 1..Len(query.tokens) : query.tokens[i] \notin Predicates
        /\ SyntaxOK(query.tokens)
        /\ status = "returned"

\* C6: a configuration lacking a table name never yields a constructed
\* Geocoder, so no parser request or database query is made under it.
C6_ConfigFailFast ==
    /\ geocoder = "ready" => TablesResolve(config)
    /\ (geocoder = "ready" /\ ~TablesResolve(config)) =>
            (parserCalls = 0 /\ queries = <<>>)

\* the sort keys between ORDER BY and LIMIT
OrderKeys(tokens) ==
    LET from == CHOOSE i \in 1..Len(tokens) : tokens[i] = "ORDER BY"
        to == CHOOSE i \in 1..Len(tokens) : tokens[i] = "LIMIT"
    IN  SubSeq(tokens, from + 1, to - 1)

\* C7: with a center the query orders by distance ascending, then trigram
\* expression descending; without a center by the trigram expression
\* descending only; forward returns the rows in that order, at most 20.
C7_ForwardOrdering ==
    QueryBuilt =>
        /\ OrderKeys(query.tokens) =
                IF centerArg = <<>> THEN <<"trgm_dist DESC">>
                ELSE <<"dist ASC,", "trgm_dist DESC">>
        /\ query.limit = 20
        /\ status = "returned" =>
            LET rows == queries[1].rows IN
            /\ Len(returned) <= 20
            /\ Len(returned) = Len(rows)
            /\ \A i \in 1..Len(rows) : returned[i][1] = Format(rows[i])
            /\ \A i, j \in 1..Len(rows) : i < j =>
                    IF centerArg = <<>>
                    THEN rows[i].trgm_dist >= rows[j].trgm_dist
                    ELSE \/ rows[i].dist[1] < rows[j].dist[1]
                         \/ /\ rows[i].dist[1] = rows[j].dist[1]
                            /\ rows[i].trgm_dist >= rows[j].trgm_dist

C7_Witness ==
    /\ QueryBuilt
    /\ status = "returned"
    /\ centerArg = <<>>
    /\ Len(returned) = 20
    /\ queries[1].rows[1].trgm_dist = 9
    /\ \E j \in 1..Len(queries[1].rows) : queries[1].rows[j].trgm_dist = 4

RingQueries == {i \in 1..Len(queries) : queries[i].kind = "ring"}

RingDone == call = "_fetch_address" /\ status = "returned"

\* group every row within the radius, order the groups, keep the first limit
Reference(rows, radius, limit) ==
    {Take(s, limit) : s \in Ordered(Grouped(Within(rows, radius)))}

\* C8 (as stated): the ring query result equals grouping all rows within the
\* radius, ordering the groups by minimum distance and keeping the first limit
\* groups.
C8_GroupThenLimit ==
    RingDone =>
        \A i \in RingQueries :
            queries[i].rows \in Reference(buildings, queries[i].radius, queries[i].limit)

\* C8 (amended): the ring query keeps the limit nearest raw rows within the
\* radius, then groups them: the result has pairwise distinct tuples in
\* ascending distance order, at most limit of them, each with the minimum
\* distance of its tuple within the radius, the tuples are those of some
\* choice of the min(limit, n) nearest raw rows, and the nearest row's group
\* comes first.
C8_LimitThenGroup ==
    RingDone =>
        \A n \in RingQueries :
            LET res == queries[n].rows
                W == {r \in buildings : r.distance <= queries[n].radius}
                lim == queries[n].limit
                m == IF Cardinality(W) < lim THEN Cardinality(W) ELSE lim
            IN  /\ Len(res) <= lim
                /\ \A i, j \in 1..Len(res) : i < j =>
                        /\ GroupKey(res[i]) # GroupKey(res[j])
                        /\ res[i].distance <= res[j].distance
                /\ \A i \in 1..Len(res) :
                        /\ \E r \in W : GroupKey(r) = GroupKey(res[i]) /\ r.distance = res[i].distance
                        /\ \A r \in W : GroupKey(r) = GroupKey(res[i]) => res[i].distance <= r.distance
                /\ \E S \in SUBSET W :
                        /\ Cardinality(S) = m
                        /\ \A r \in S : \A q \in W \ S : r.distance <= q.distance
                        /\ {GroupKey(r) : r \in S} = {GroupKey(res[i]) : i \in 1..Len(res)}
                /\ W # {} => (res # <<>> /\ \A r \in W : res[1].distance <= r.distance)

C8_Witness ==
    /\ RingDone
    /\ Len(queries) = 1
    /\ queries[1].limit = 2
    /\ Len(queries[1].rows) = 1
    /\ queries[1].rows[1].distance = 12
    /\ \E r \in buildings : r.distance = 30 /\ GroupKey(r) = GroupKey(queries[1].rows[1])
    /\ Cardinality({GroupKey(r) : r \in Within(buildings, queries[1].radius)}) = 2

\* the address field a placeholder clause compares with
FieldOf(clause) ==
    IF clause \in {"road <-> %s as trgm_dist", "b.road %% %s"} THEN "road"
    ELSE IF clause = "pc.postcode = %s" THEN "postcode"
    ELSE IF clause = "a.name %% %s" THEN "city"
    ELSE "house_number"

\* textual rank of a placeholder clause: trigram distance, area filter, road
\* filter, house number filter
RankOf(clause) ==
    IF clause = "road <-> %s as trgm_dist" THEN 1
    ELSE IF clause \in {"pc.postcode = %s", "a.name %% %s"} THEN 2
    ELSE IF clause = "b.road %% %s" THEN 3
    ELSE 4

\* C9: the parameter list has one entry per placeholder of the query text, the
\* i-th parameter is the value of the field of the i-th placeholder, the
\* placeholders come in the order trigram distance, postcode or city filter,
\* road filter, house number filter, and no address value is part of the text.
C9_BoundParameters ==
    QueryBuilt =>
        LET pp == PlaceholderPositions(query.tokens) IN
        /\ Len(v) = Len(pp)
        /\ \A k \in 1..Len(pp) :
                /\ Has(parsed_address, FieldOf(query.tokens[pp[k]]))
                /\ k <= Len(v) => v[k] = parsed_address[FieldOf(query.tokens[pp[k]])]
        /\ \A k, l \in 1..Len(pp) :
                k < l => RankOf(query.tokens[pp[k]]) < RankOf(query.tokens[pp[l]])
        /\ \A i \in 1..Len(query.tokens) :
                \A f \in DOMAIN parsed_address : query.tokens[i] # parsed_address[f]

C9_Witness ==
    /\ QueryBuilt
    /\ DOMAIN parsed_address = Fields
    /\ centerArg # <<>>
    /\ Len(v) = 4
    /\ status = "returned"

\* C10: a postcode- or city-based query without road and house number filters
\* by the postcode (or city) alone: no per-field filter, no empty predicate
\* group in WHERE, and the query executes without a database error.
C10_AreaOnlyFilter ==
    (ForwardDone /\ parsed_address # <<>>
        /\ ~Has(parsed_address, "road") /\ ~Has(parsed_address, "house_number")) =>
        /\ ~HasToken("b.road %% %s")
        /\ ~HasToken("b.house_number %% %s")
        /\ \A i \in 1..Len(query.tokens) :
                query.tokens[i] = "(" => (i < Len(query.tokens) /\ query.tokens[i + 1] # ")")
        /\ status = "returned"

====
